---------------------------- MODULE Spec2Model ----------------------------
(*************************************************************************)
(* A model of forest/jasmine/traj2stats.py: gps_summaries, the windowing *)
(* and mobility-statistics engine, and gps_stats_main, the loop over the *)
(* users of a study.  The state is the functions' arguments and locals;  *)
(* one action per step of a function.                                    *)
(*                                                                       *)
(* Times are integer seconds.  Positions lie on one meridian: x is the   *)
(* position in metres along it and y is constant, so that the            *)
(* great-circle distance of two points is the difference of their x.     *)
(* A float that is not a number (nan, or +-inf after a division by zero) *)
(* is the value NaN.                                                     *)
(*************************************************************************)
EXTENDS Integers, Sequences, FiniteSets, TLC

VARIABLES
    traj,               \* the n by 8 trajectory [s,x0,y0,t0,x1,y1,t1,obs]
    option,             \* "hourly" or "daily"
    places_of_interest, \* None, or {list of categories}
    save_log,
    threshold,          \* None, or {minutes}
    split_day_night,
    osm,                \* what the Overpass service would answer
    pc,                 \* the position in gps_summaries
    tries, sleeps,      \* the query loop's counter, and the sleeps it took
    ids, locations, tags,
    home_x, home_y,
    start_stamp, end_stamp, window, no_windows,
    i,                  \* the loop variable of the window loop
    win,                \* the locals of the window processed last
    temp,               \* the clipped segments of the window processed last
    summary_stats,      \* the rows appended so far
    log_tags,           \* label -> list of tags, or LogNaN
    summary_stats2,     \* the table returned
    error,              \* the exception that ended the call, or "none"
    main_pc,            \* the position in gps_stats_main, "idle" outside it
    poi_type,           \* the type of gps_stats_main's places_of_interest
    save_traj,
    beiwe_id,           \* the list of users
    id_index,           \* how many users the loop has gone through
    steps_done,         \* <<id_code, step>> of every step completed
    stdout              \* <<id_code, line>> of every line written

\* the state of gps_stats_main
main_vars == <<main_pc, poi_type, save_traj, beiwe_id, id_index, steps_done,
               stdout>>

vars == <<traj, option, places_of_interest, save_log, threshold,
          split_day_night, osm, pc, tries, sleeps, ids, locations, tags,
          home_x, home_y, start_stamp, end_stamp, window, no_windows, i,
          win, temp, summary_stats, log_tags, summary_stats2, error,
          main_pc, poi_type, save_traj, beiwe_id, id_index, steps_done,
          stdout>>

-----------------------------------------------------------------------------
(* Bounds of the model. *)

\* the longest trajectory, in segments
MaxSegs == 3
\* the longest segment of an hourly trajectory, in half hours
MaxDur == 5
\* the latest start of an hourly trajectory, in half hours after midnight
MaxStart == 1
\* the most pauses of a trajectory that wanders between nearby places
MaxPauses == 3

-----------------------------------------------------------------------------
(* Values. *)

\* Python's None: an optional value is the empty set, or the set of its value
None == {}

\* numpy's nan
NaN == 0 - 1000000000

\* the log entry of a window without observed data (np.nan)
LogNaN == <<"nan">>

FLIGHT == 1
PAUSE == 2

Abs(a) == IF a < 0 THEN 0 - a ELSE a

Max2(a, b) == IF a >= b THEN a ELSE b

Range(f) == {f[k] : k \in DOMAIN f}

\* sum of a sequence of numbers; nan once a nan has entered
RECURSIVE SumSeq(_)
SumSeq(s) ==
    IF s = <<>> THEN 0
    ELSE LET r == SumSeq(Tail(s))
         IN  IF Head(s) = NaN \/ r = NaN THEN NaN ELSE Head(s) + r

\* Python's max(iterable): the first element, replaced by each later element
\* that compares greater (a comparison with nan is false)
RECURSIVE PyMaxFrom(_, _)
PyMaxFrom(m, s) ==
    IF s = <<>> THEN m
    ELSE PyMaxFrom(IF m # NaN /\ Head(s) # NaN /\ Head(s) > m
                   THEN Head(s) ELSE m, Tail(s))

PyMax(s) == PyMaxFrom(Head(s), Tail(s))

\* a / b of two floats, as an integer quotient; nan when b is 0 or an
\* operand is nan
Div(a, b) == IF a = NaN \/ b = NaN \/ b = 0 THEN NaN ELSE a \div b

\* a + b and a * b of floats
Plus(a, b) == IF a = NaN \/ b = NaN THEN NaN ELSE a + b

Times(a, b) == IF a = NaN \/ b = NaN THEN NaN ELSE a * b

\* the rows of s at the positions where mask holds (numpy's s[mask, :])
SelectMask(s, mask) ==
    LET F[k \in 0..Len(s)] ==
            IF k = 0 THEN <<>>
            ELSE IF mask[k] THEN Append(F[k - 1], s[k]) ELSE F[k - 1]
    IN  F[Len(s)]

\* the number of True in a mask (sum(index_rows))
CountMask(mask) == Cardinality({k \in DOMAIN mask : mask[k]})

\* Python's index k into a sequence of n rows, as a position 1..n
\* (a negative k counts from the end); 0 when out of range
PyIdx(k, n) ==
    IF k >= 0 THEN (IF k < n THEN k + 1 ELSE 0)
    ELSE (IF n + k >= 0 THEN n + k + 1 ELSE 0)

-----------------------------------------------------------------------------
(* The collaborators: time conversion, distance.  The timezone is UTC    *)
(* and the calendar is January 1970.                                     *)

\* stamp2datetime(stamp, tz_str): [year, month, day, hour, minute, second]
stamp2datetime(t) ==
    <<1970, 1, 1 + (t \div 86400), (t % 86400) \div 3600,
      (t % 3600) \div 60, t % 60>>

\* datetime2stamp(time_list, tz_str)
datetime2stamp(tl) ==
    (tl[3] - 1) * 86400 + tl[4] * 3600 + tl[5] * 60 + tl[6]

\* great_circle_dist(lat1, lon1, lat2, lon2), in metres
great_circle_dist(xa, ya, xb, yb) ==
    IF xa = NaN \/ ya = NaN \/ xb = NaN \/ yb = NaN THEN NaN
    ELSE Abs(xa - xb) + Abs(ya - yb)


\* Polygon(vertices).contains(Point(x, y)) of shapely, for the polygons of
\* the model, which are rectangles with sides along the axes: the point is
\* strictly inside
PolygonContains(vs, px, py) ==
    /\ px # NaN /\ py # NaN
    /\ \E a \in Range(vs) : a[1] < px
    /\ \E a \in Range(vs) : a[1] > px
    /\ \E a \in Range(vs) : a[2] < py
    /\ \E a \in Range(vs) : a[2] > py

-----------------------------------------------------------------------------
(* The inputs. *)

\* a row of traj
Seg(s, xa, ta, xb, tb, o) ==
    [s |-> s, x0 |-> xa, y0 |-> 0, t0 |-> ta,
     x1 |-> xb, y1 |-> 0, t1 |-> tb, obs |-> o]

OtherStatus(s) == IF s = FLIGHT THEN PAUSE ELSE FLIGHT

\* the trajectories of n segments that start at time t and position x with
\* status s: contiguous in time and space, flights and pauses alternating,
\* a flight moving by one of moves and a pause staying where it is
RECURSIVE TrajsFrom(_, _, _, _, _, _, _, _)
TrajsFrom(n, t, s, x, tick, durs, moves, obs) ==
    IF n = 0 THEN {<<>>}
    ELSE UNION {
        {<<Seg(s, x, t, x + m, t + d * tick, o)>> \o rest :
            rest \in TrajsFrom(n - 1, t + d * tick, OtherStatus(s), x + m,
                               tick, durs, moves, obs)} :
        d \in durs, o \in obs,
        m \in IF s = FLIGHT THEN moves ELSE {0}}

\* the grid of the trajectories' timestamps: half an hour for the hourly
\* summaries, two hours for the daily ones
Tick(opt) == IF opt = "hourly" THEN 1800 ELSE 7200

\* the starts of the trajectories, in ticks after midnight: of the daily
\* ones 00:00, 06:00, 10:00, 20:00 and 22:00
Starts(opt) == IF opt = "hourly" THEN 0..MaxStart ELSE {0, 3, 5, 10, 11}

\* the durations of the segments, in ticks: of the daily ones 0, 2, 6, 12
\* and 24 hours
Durations(opt) == IF opt = "hourly" THEN 0..MaxDur ELSE {0, 1, 3, 6, 12}

\* an answer of the Overpass service: res["elements"]
Node(id, cat, x) ==
    [id |-> id, type |-> "node", key |-> "amenity", value |-> cat,
     geometry |-> <<<<x, 0>>>>]

Way(id, cat, vs) ==
    [id |-> id, type |-> "way", key |-> "leisure", value |-> cat,
     geometry |-> vs]

\* the rectangle around the points xa..xb of the meridian
Rect(xa, xb) == <<<<xa, 0 - 10>>, <<xb, 0 - 10>>, <<xb, 10>>, <<xa, 10>>>>

Worlds ==
    { <<>>,
      <<Node(1, "cafe", 100)>>,
      <<Node(1, "cafe", 100), Way(2, "park", Rect(90, 110))>>,
      <<Way(2, "park", Rect(90, 110)), Node(1, "cafe", 100),
        Node(3, "cafe", 103)>>,
      <<Way(4, "cafe", <<<<100, 0>>, <<104, 0>>>>)>> }

TypeOK ==
    /\ option \in {"hourly", "daily", "both"}
    /\ split_day_night \in BOOLEAN
    /\ save_log \in BOOLEAN
    /\ main_pc \in {"idle", "check", "loop", "done", "exited"}
    /\ id_index \in 0..Len(beiwe_id)
    /\ pc \in {"start", "query", "plan", "loop", "assemble", "returned",
               "raised", "exited"}
    /\ tries \in 0..2
    /\ i \in Nat

\* the state at the call of gps_summaries; home is what locate_home of
\* another module returns at line 151, taken to be the origin
InitCall ==
    /\ pc = "start"
    /\ tries = 0 /\ sleeps = 0
    /\ ids = <<>> /\ locations = <<>> /\ tags = <<>>
    /\ home_x = 0 /\ home_y = 0
    /\ start_stamp = 0 /\ end_stamp = 0 /\ window = 0 /\ no_windows = 0
    /\ i = 0
    /\ win = [i |-> 0 - 1, i2 |-> 0, start_time |-> 0, end_time |-> 0,
              year |-> 0, month |-> 0, day |-> 0, hour |-> 0,
              t2 |-> 0, t3 |-> 0, selected |-> <<>>]
    /\ temp = <<>>
    /\ summary_stats = <<>>
    /\ log_tags = <<>>
    /\ summary_stats2 = [columns |-> <<>>, rows |-> <<>>]
    /\ error = "none"
    /\ main_pc = "idle"
    /\ poi_type = IF places_of_interest = None THEN "NoneType" ELSE "list"
    /\ save_traj = FALSE
    /\ beiwe_id = <<>>
    /\ id_index = 0
    /\ steps_done = <<>>
    /\ stdout = <<>>

\* trajectories on the grid, of every timing and provenance; no places
InitWindows(opts) ==
    /\ option \in opts
    /\ split_day_night \in BOOLEAN
    /\ places_of_interest = None /\ save_log = FALSE /\ threshold = None
    /\ osm = <<>>
    /\ \E n \in 1..MaxSegs, t \in Starts(option), s \in {FLIGHT, PAUSE} :
          traj \in TrajsFrom(n, t * Tick(option), s, 0, Tick(option),
                             Durations(option), {600}, {0, 1})
    /\ InitCall

\* trajectories of fixed timing that visit places; places asked for
InitPlaces(opts) ==
    /\ option \in opts
    /\ split_day_night = FALSE
    /\ places_of_interest \in {None, {<<"cafe", "park">>}, {<<"park">>}}
    /\ save_log \in BOOLEAN
    /\ places_of_interest # None \/ save_log
    /\ threshold \in IF save_log THEN {None, {30}} ELSE {None}
    /\ osm \in Worlds
    /\ \E n \in 1..MaxSegs, x \in {0, 100} :
          traj \in TrajsFrom(n, Tick(option), PAUSE, x, Tick(option),
                             {2}, {4, 100}, {0, 1})
    /\ InitCall

\* a trajectory of one observed flight of 600 s over 0.01 degree of
\* longitude at the equator (1113 m), within one clock hour, and no other
\* segment
SingleFlight(t) == <<Seg(FLIGHT, 0, t, 1113, t + 600, 1)>>

\* the starts of the single flight: six within the first hour and one
\* within the second
FlightStarts == {0, 600, 1200, 1800, 2400, 3000, 4500}

InitSingleFlight(opts) ==
    /\ option \in opts
    /\ split_day_night = FALSE
    /\ places_of_interest = None /\ save_log = FALSE /\ threshold = None
    /\ osm = <<>>
    /\ \E t \in FlightStarts : traj = SingleFlight(t)
    /\ InitCall

\* trajectories of one morning that pause at places a few metres apart, 100 m
\* from home; places asked for
InitClusters(opts) ==
    /\ option \in opts
    /\ split_day_night = FALSE
    /\ places_of_interest = {<<"park">>}
    /\ save_log = FALSE /\ threshold = None
    /\ osm \in {<<>>, <<Way(2, "park", Rect(90, 110))>>}
    /\ traj \in TrajsFrom(2 * MaxPauses - 1, Tick(option), PAUSE, 100,
                          Tick(option), {1}, {0 - 4, 4, 8}, {1})
    /\ InitCall

Init ==
    \/ InitWindows({"hourly", "daily"})
    \/ InitPlaces({"hourly", "daily"})
    \/ InitSingleFlight({"hourly"})
    \/ InitClusters({"daily"})

InitHourly ==
    \/ InitWindows({"hourly"})
    \/ InitPlaces({"hourly"})
    \/ InitSingleFlight({"hourly"})

InitDaily ==
    \/ InitWindows({"daily"})
    \/ InitPlaces({"daily"})
    \/ InitClusters({"daily"})

-----------------------------------------------------------------------------
(* Python dictionaries: the keys in insertion order, each with its value. *)

DictHas(d, k) == \E n \in DOMAIN d : d[n][1] = k

DictGet(d, k) == d[CHOOSE n \in DOMAIN d : d[n][1] = k][2]

\* d[k] = v
DictSet(d, k, v) ==
    IF DictHas(d, k)
    THEN [n \in DOMAIN d |-> IF d[n][1] = k THEN <<k, v>> ELSE d[n]]
    ELSE Append(d, <<k, v>>)

DictKeys(d) == [n \in DOMAIN d |-> d[n][1]]

-----------------------------------------------------------------------------
(* The query of the places of interest (lines 74-148). *)

\* the statuses the Overpass service may answer with
Statuses == {200, 429}

\* ids, locations and tags after the elements es of the answer
RECURSIVE ParseElements(_, _)
ParseElements(es, acc) ==
    IF es = <<>> THEN acc
    ELSE LET e == Head(es)
             old == IF DictHas(acc.ids, e.value)
                    THEN DictGet(acc.ids, e.value) ELSE <<>>
         IN  ParseElements(Tail(es),
                 [ids |-> DictSet(acc.ids, e.value, Append(old, e.id)),
                  locations |-> DictSet(acc.locations, e.id, e.geometry),
                  tags |-> DictSet(acc.tags, e.id, <<e.key, e.value>>)])

\* lines 74-102: hourly summaries are never split; the places are queried
\* when categories or the log are asked for
Setup ==
    /\ pc = "start"
    /\ split_day_night' = IF option = "hourly" THEN FALSE ELSE split_day_night
    /\ pc' = IF places_of_interest # None \/ save_log THEN "query" ELSE "plan"
    /\ UNCHANGED <<traj, option, places_of_interest, save_log, threshold,
                   osm, tries, sleeps, ids, locations, tags, home_x, home_y,
                   start_stamp, end_stamp, window, no_windows, i, win, temp,
                   summary_stats, log_tags, summary_stats2, error>>
    /\ UNCHANGED main_vars

\* GivesUp one failure later
GivesUpAfterFour(t) == t = 3

\* line 111: the failure after t failures is the last one
GivesUp(t) == t = 2

\* lines 107-148: one turn of the while loop, one request
Request ==
    /\ pc = "query"
    /\ \E status_code \in Statuses :
          IF status_code # 200
          THEN IF GivesUp(tries)
               THEN /\ pc' = "exited"
                    /\ UNCHANGED <<tries, sleeps, ids, locations, tags>>
               ELSE /\ tries' = tries + 1
                    /\ sleeps' = sleeps + 1
                    /\ UNCHANGED <<pc, ids, locations, tags>>
          ELSE LET res == ParseElements(osm, [ids |-> <<>>,
                                               locations |-> <<>>,
                                               tags |-> <<>>])
               IN  /\ ids' = res.ids
                   /\ locations' = res.locations
                   /\ tags' = res.tags
                   /\ pc' = "plan"
                   /\ UNCHANGED <<tries, sleeps>>
    /\ UNCHANGED <<traj, option, places_of_interest, save_log, threshold,
                   split_day_night, osm, home_x, home_y, start_stamp,
                   end_stamp, window, no_windows, i, win, temp,
                   summary_stats, log_tags, summary_stats2, error>>
    /\ UNCHANGED main_vars

-----------------------------------------------------------------------------
(* The window plan (lines 150-188). *)

\* time_list with the minutes and seconds set to 0
TruncHour(t) ==
    LET tl == stamp2datetime(t)
    IN  datetime2stamp([tl EXCEPT ![5] = 0, ![6] = 0])

\* time_list with the hours, minutes and seconds set to 0
TruncDay(t) ==
    LET tl == stamp2datetime(t)
    IN  datetime2stamp([tl EXCEPT ![4] = 0, ![5] = 0, ![6] = 0])

\* StartStamp without the hour added at line 160
StartStampOnTheHour(tr, opt) ==
    IF opt = "hourly" THEN TruncHour(tr[1].t0)
    ELSE TruncDay(tr[1].t0)

\* lines 157-160 and 173-177
StartStamp(tr, opt) ==
    IF opt = "hourly" THEN TruncHour(tr[1].t0) + 3600
    ELSE TruncDay(tr[1].t0)

\* lines 161-164 and 178-182: from column 3 of the last row, its t0
EndStamp(tr, opt) ==
    IF opt = "hourly" THEN TruncHour(tr[Len(tr)].t0)
    ELSE TruncDay(tr[Len(tr)].t0) + 3600 * 24

\* lines 167 and 185
Window(opt) == IF opt = "hourly" THEN 60 * 60 ELSE 60 * 60 * 24

\* lines 168 and 186-188; // is the floor division of TLA+
NoWindows(tr, opt, split) ==
    LET n == (EndStamp(tr, opt) - StartStamp(tr, opt)) \div Window(opt)
    IN  IF opt = "daily" /\ split THEN n * 2 ELSE n

Plan ==
    /\ pc = "plan"
    /\ start_stamp' = StartStamp(traj, option)
    /\ end_stamp' = EndStamp(traj, option)
    /\ window' = Window(option)
    /\ no_windows' = NoWindows(traj, option, split_day_night)
    /\ i' = 0
    /\ pc' = IF no_windows' > 0 THEN "loop" ELSE "assemble"
    /\ UNCHANGED <<traj, option, places_of_interest, save_log, threshold,
                   split_day_night, osm, tries, sleeps, ids, locations, tags,
                   home_x, home_y, win, temp, summary_stats, log_tags,
                   summary_stats2, error>>
    /\ UNCHANGED main_vars

-----------------------------------------------------------------------------
(* The segments of a window and their clipping (lines 192-284). *)

\* lines 192-202 and 207-213: the locals of turn j of the window loop
WindowOf(j) ==
    LET i2 == IF split_day_night THEN j \div 2 ELSE j
        start_time == start_stamp + i2 * window
        current_time_list == stamp2datetime(start_time)
    IN  [i |-> j, i2 |-> i2,
         start_time |-> start_time,
         end_time |-> start_stamp + (i2 + 1) * window,
         year |-> current_time_list[1],
         month |-> current_time_list[2],
         day |-> current_time_list[3],
         hour |-> current_time_list[4],
         t2 |-> datetime2stamp([current_time_list EXCEPT ![4] = 8]),
         t3 |-> datetime2stamp([current_time_list EXCEPT ![4] = 20])]

IsDay(w) == split_day_night /\ w.i % 2 = 0

IsNight(w) == split_day_night /\ w.i % 2 # 0

\* line 219
Index1(tr, w) ==
    [k \in DOMAIN tr |->
        tr[k].t1 < w.t2 /\ tr[k].t0 < w.end_time /\ tr[k].t1 > w.start_time]

\* line 220
Index2(tr, w) ==
    [k \in DOMAIN tr |->
        tr[k].t0 > w.t3 /\ tr[k].t0 < w.end_time /\ tr[k].t1 > w.start_time]

\* lines 205, 216 and 223
IndexRows(tr, w) ==
    IF IsDay(w)
    THEN [k \in DOMAIN tr |-> tr[k].t0 <= w.t3 /\ tr[k].t1 >= w.t2]
    ELSE IF IsNight(w)
    THEN [k \in DOMAIN tr |-> Index1(tr, w)[k] \/ Index2(tr, w)[k]]
    ELSE [k \in DOMAIN tr |->
             tr[k].t0 < w.end_time /\ tr[k].t1 > w.start_time]

\* line 228: the window is neither the first nor the last of the series
Interior(w) == w.i2 # 0 /\ w.i2 # no_windows - 1

\* (1 - p) * u + p * v for p = num / den, rounded down to a metre; nan when
\* den is 0 (p is inf or nan) or a coordinate is nan
Interp(u, v, num, den) ==
    IF den = 0 \/ u = NaN \/ v = NaN THEN NaN
    ELSE ((den - num) * u + num * v) \div den

\* lines 237-248: the one selected segment, cut at both ends
ClipSingle(tp, ta, tb) ==
    LET r == tp[1]
        den == r.t1 - r.t0
    IN  <<[r EXCEPT !.x0 = Interp(r.x0, r.x1, ta - r.t0, den),
                    !.y0 = Interp(r.y0, r.y1, ta - r.t0, den),
                    !.t0 = ta,
                    !.x1 = Interp(r.x0, r.x1, tb - r.t0, den),
                    !.y1 = Interp(r.y0, r.y1, tb - r.t0, den),
                    !.t1 = tb]>>

\* lines 256-275 and 277-284: row a cut at its start to ta, then row b cut
\* at its end to tb; p0 and p1 are taken before either row is changed
ClipEnds(tp, a, b, ta, tb) ==
    LET ra == tp[a]
        p0num == ra.t1 - ta
        p0den == ra.t1 - ra.t0
        p1num == tb - tp[b].t0
        p1den == tp[b].t1 - tp[b].t0
        tp1 == [tp EXCEPT ![a] =
                   [ra EXCEPT !.x0 = Interp(ra.x1, ra.x0, p0num, p0den),
                              !.y0 = Interp(ra.y1, ra.y0, p0num, p0den),
                              !.t0 = ta]]
        rb == tp1[b]
    IN  [tp1 EXCEPT ![b] =
            [rb EXCEPT !.x1 = Interp(rb.x0, rb.x1, p1num, p1den),
                       !.y1 = Interp(rb.y0, rb.y1, p1num, p1den),
                       !.t1 = tb]]

\* lines 221-222
Stop1(tr, w) == CountMask(Index1(tr, w)) - 1

Stop2(tr, w) == CountMask(Index1(tr, w))

\* lines 250-275: the two turns of the loop over the halves of the night;
\* a row index out of range raises IndexError
ClipNight(tp, w, stop1, stop2) ==
    LET n == Len(tp)
        a1 == PyIdx(0, n)
        b1 == PyIdx(stop1, n)
        a2 == PyIdx(stop2, n)
        b2 == PyIdx(0 - 1, n)
    IN  IF a1 = 0 \/ b1 = 0 \/ a2 = 0 \/ b2 = 0
        THEN [error |-> "IndexError", temp |-> tp]
        ELSE [error |-> "none",
              temp |-> ClipEnds(ClipEnds(tp, a1, b1, w.start_time, w.t2),
                                a2, b2, w.t3, w.end_time)]

\* lines 225-284: temp, or the exception
Clip(tr, w) ==
    LET mask == IndexRows(tr, w)
        tp == SelectMask(tr, mask)
        ta == IF IsDay(w) THEN w.t2 ELSE w.start_time
        tb == IF IsDay(w) THEN w.t3 ELSE w.end_time
    IN  IF ~Interior(w) THEN [error |-> "none", temp |-> tp]
        ELSE IF CountMask(mask) = 1
        THEN [error |-> "none", temp |-> ClipSingle(tp, ta, tb)]
        ELSE IF IsNight(w)
        THEN ClipNight(tp, w, Stop1(tr, w), Stop2(tr, w))
        ELSE IF tp = <<>>
        THEN [error |-> "IndexError", temp |-> tp]
        ELSE [error |-> "none",
              temp |-> ClipEnds(tp, 1, Len(tp), ta, tb)]

-----------------------------------------------------------------------------
(* The statistics of a window (lines 286-300 and 395-410). *)

\* comparisons of floats: false when an operand is nan
Gt(a, b) == a # NaN /\ b # NaN /\ a > b

Le(a, b) == a # NaN /\ b # NaN /\ a <= b

\* [f(s[1]), ..., f(s[n])]
MapSeq(s, f(_)) == [k \in DOMAIN s |-> f(s[k])]

\* the rows of s that satisfy test
Filter(s, test(_)) == SelectMask(s, [k \in DOMAIN s |-> test(s[k])])

Dur(r) == r.t1 - r.t0

IsFlight(r) == r.s = FLIGHT

IsPause(r) == r.s = PAUSE

IsObs(r) == r.obs = 1

\* line 286
ObsDur(tp) == SumSeq(MapSeq(Filter(tp, IsObs), Dur))

\* lines 287-288
DHome1(r) == great_circle_dist(home_x, home_y, r.x0, r.y0)

DHome2(r) == great_circle_dist(home_x, home_y, r.x1, r.y1)

\* lines 289 and 291: (d_home_1 + d_home_2) / 2 <= 50
AtHome(r) ==
    /\ DHome1(r) # NaN /\ DHome2(r) # NaN
    /\ DHome1(r) + DHome2(r) <= 2 * 50

\* lines 292-294: the length of a segment, rounded to a metre
Mov(r) == great_circle_dist(r.x1, r.y1, r.x0, r.y0)

\* the largest r with r * r <= n
RECURSIVE ISqrtIn(_, _, _)
ISqrtIn(n, lo, hi) ==
    IF lo >= hi THEN lo
    ELSE LET mid == (lo + hi + 1) \div 2
         IN  IF mid * mid <= n THEN ISqrtIn(n, mid, hi)
             ELSE ISqrtIn(n, lo, mid - 1)

\* a power of two whose square exceeds n
RECURSIVE Above(_, _)
Above(n, h) == IF h * h > n THEN h ELSE Above(n, 2 * h)

ISqrt(n) == IF n = 0 THEN 0 ELSE ISqrtIn(n, 1, Above(n, 2))

\* np.mean of a vector that is not empty, as an integer quotient
Mean(v) == Div(SumSeq(v), Len(v))

\* np.std of a vector that is not empty: the root of the mean squared
\* deviation, rounded down
Std(v) ==
    LET m == Mean(v)
        Sq(a) == IF a = NaN \/ m = NaN THEN NaN ELSE (a - m) * (a - m)
        var == Div(SumSeq(MapSeq(v, Sq)), Len(v))
    IN  IF var = NaN THEN NaN ELSE ISqrt(var)

\* a duration in minutes
Minutes(r) == Div(Dur(r), 60)

\* lines 286-300 and 395-410; max() of no segment raises ValueError
Stats(tp) ==
    LET flights == Filter(tp, IsFlight)
        pauses == Filter(tp, IsPause)
    IN  [error |-> IF tp = <<>> THEN "ValueError" ELSE "none",
         obs_dur |-> ObsDur(tp),
         max_dist_home |->
             IF tp = <<>> THEN NaN
             ELSE PyMax(MapSeq(tp, DHome1) \o MapSeq(tp, DHome2)),
         time_at_home |-> SumSeq(MapSeq(Filter(tp, AtHome), Dur)),
         total_pause_time |-> SumSeq(MapSeq(pauses, Dur)),
         total_flight_time |-> SumSeq(MapSeq(flights, Dur)),
         dist_traveled |-> SumSeq(MapSeq(tp, Mov)),
         av_f_len |-> IF flights = <<>> THEN 0
                      ELSE Mean(MapSeq(flights, Mov)),
         sd_f_len |-> IF flights = <<>> THEN 0
                      ELSE Std(MapSeq(flights, Mov)),
         \* the means and deviations of durations, in minutes
         av_f_dur |-> IF flights = <<>> THEN 0
                      ELSE Mean(MapSeq(flights, Minutes)),
         sd_f_dur |-> IF flights = <<>> THEN 0
                      ELSE Std(MapSeq(flights, Minutes)),
         av_p_dur |-> IF pauses = <<>> THEN 0
                      ELSE Mean(MapSeq(pauses, Minutes)),
         sd_p_dur |-> IF pauses = <<>> THEN 0
                      ELSE Std(MapSeq(pauses, Minutes))]

-----------------------------------------------------------------------------
(* The places of a window (lines 302-393). *)

\* lines 306-332: the clusters of the pauses farther than 5 m from home,
\* each [x, y, minutes]; a pause within 5 m of clusters adds its minutes to
\* every one of them
RECURSIVE PauseArrayFrom(_, _)
PauseArrayFrom(rows, acc) ==
    IF rows = <<>> THEN acc
    ELSE LET row == Head(rows)
             m == Minutes(row)
             D(c) == great_circle_dist(row.x0, row.y0, c[1], c[2])
             near == {k \in DOMAIN acc : Le(D(acc[k]), 5)}
             next ==
                 IF ~Gt(great_circle_dist(row.x0, row.y0, home_x, home_y), 5)
                 THEN acc
                 ELSE IF acc = <<>> \/ near = {}
                 THEN Append(acc, <<row.x0, row.y0, m>>)
                 ELSE [k \in DOMAIN acc |->
                          IF k \in near
                          THEN <<acc[k][1], acc[k][2], acc[k][3] + m>>
                          ELSE acc[k]]
         IN  PauseArrayFrom(Tail(rows), next)

PauseArray(tp) == PauseArrayFrom(Filter(tp, IsPause), <<>>)

\* MatchesGeometry with a geometry of two vertices taken as the point of
\* its first vertex
MatchesGeometryByFirstVertex(vs, c) ==
    \/ Len(vs) <= 2 /\
       2 * great_circle_dist(c[1], c[2], vs[1][1], vs[1][2]) < 15
    \/ Len(vs) >= 3 /\ PolygonContains(vs, c[1], c[2])

\* lines 343-362: the cluster c is at the point, or inside the polygon, of
\* the geometry vs; a geometry of two vertices is neither
MatchesGeometry(vs, c) ==
    \/ Len(vs) = 1 /\
       2 * great_circle_dist(c[1], c[2], vs[1][1], vs[1][2]) < 15
    \/ Len(vs) >= 3 /\ PolygonContains(vs, c[1], c[2])

\* lines 341-362: some geometry of the category place matches the cluster
MatchesPlace(place, c) ==
    /\ DictHas(ids, place)
    /\ \E n \in DOMAIN DictGet(ids, place) :
          MatchesGeometry(DictGet(locations, DictGet(ids, place)[n]), c)

\* lines 339-366: what the cluster c adds to each place and to "other";
\* the break at a match leaves the loop over the geometries of one
\* category, and the next category is tried all the same
PlaceShares(pois, c) ==
    [j \in 1..(Len(pois) + 1) |->
        IF j <= Len(pois)
        THEN IF MatchesPlace(pois[j], c) THEN Div(c[3], 60) ELSE 0
        ELSE IF \E k \in 1..Len(pois) : MatchesPlace(pois[k], c)
             THEN 0 ELSE Div(c[3], 60)]

\* lines 333-366: all_place_times_temp
RECURSIVE AllPlaceTimes(_, _)
AllPlaceTimes(pois, pa) ==
    IF pa = <<>> THEN [j \in 1..(Len(pois) + 1) |-> 0]
    ELSE LET rest == AllPlaceTimes(pois, Tail(pa))
             mine == PlaceShares(pois, Head(pa))
         IN  [j \in 1..(Len(pois) + 1) |-> mine[j] + rest[j]]

\* lines 377-393: the tags of the geometries that match the cluster, in
\* the order of locations
RECURSIVE TagsOf(_, _)
TagsOf(locs, c) ==
    IF locs = <<>> THEN <<>>
    ELSE (IF MatchesGeometry(Head(locs)[2], c)
          THEN <<DictGet(tags, Head(locs)[1])>> ELSE <<>>)
         \o TagsOf(Tail(locs), c)

\* lines 368-393: log_tags_temp, for the threshold thr in minutes
RECURSIVE LogTagsTemp(_, _)
LogTagsTemp(pa, thr) ==
    IF pa = <<>> THEN <<>>
    ELSE (IF Head(pa)[3] >= thr THEN TagsOf(locations, Head(pa)) ELSE <<>>)
         \o LogTagsTemp(Tail(pa), thr)

\* lines 369-370: the threshold in force once a cluster has been looked at
ThresholdOf(thr) == IF thr = None THEN 60 ELSE CHOOSE v \in thr : TRUE

\* lines 302-393; len(None) raises TypeError
Places(tp) ==
    LET asked == places_of_interest # None \/ save_log
        pa == IF asked THEN PauseArray(tp) ELSE <<>>
        pois == IF places_of_interest = None THEN <<>>
                ELSE CHOOSE l \in places_of_interest : TRUE
    IN  [error |-> IF asked /\ places_of_interest = None
                   THEN "TypeError" ELSE "none",
         pause_array |-> pa,
         all_place_times_temp |->
             IF places_of_interest = None THEN <<>>
             ELSE AllPlaceTimes(pois, pa),
         log_tags_temp |->
             IF save_log THEN LogTagsTemp(pa, ThresholdOf(threshold))
             ELSE <<>>,
         threshold |->
             IF save_log /\ pa # <<>> THEN {ThresholdOf(threshold)}
             ELSE threshold]

-----------------------------------------------------------------------------
(* The statistics of a day only (lines 479-516). *)

\* lines 481-484: the hour of the segment's middle is one of 8..19
InDayPart(r) ==
    LET h == stamp2datetime((r.t0 + r.t1) \div 2)[4]
    IN  h >= 8 /\ h <= 19

InNightPart(r) == ~InDayPart(r)

\* num_sig_places(data, dist) of mobmat2traj: the pauses are clustered in
\* their order, each joining the nearest cluster when it is within dist and
\* founding one otherwise; a cluster is [x, y, number of pauses, seconds]
RECURSIVE SigPlacesFrom(_, _, _)
SigPlacesFrom(rows, dist, acc) ==
    IF rows = <<>> THEN acc
    ELSE LET row == Head(rows)
             D(c) == great_circle_dist(row.x0, row.y0, c[1], c[2])
             index == CHOOSE k \in DOMAIN acc :
                         /\ \A l \in DOMAIN acc : ~Gt(D(acc[k]), D(acc[l]))
                         /\ \A l \in 1..(k - 1) : Gt(D(acc[l]), D(acc[k]))
             c == acc[index]
             next ==
                 IF acc = <<>> \/ Gt(D(c), dist)
                 THEN Append(acc, <<row.x0, row.y0, 1, Dur(row)>>)
                 ELSE [acc EXCEPT ![index] =
                          <<Div(Plus(Times(c[1], c[3]), row.x0), c[3] + 1),
                            Div(Plus(Times(c[2], c[3]), row.y0), c[3] + 1),
                            c[3] + 1, c[4] + Dur(row)>>]
         IN  SigPlacesFrom(Tail(rows), dist, next)

\* t_xy of num_sig_places(temp_pause, 50)
TXY(tp) ==
    LET cs == SigPlacesFrom(Filter(tp, IsPause), 50, <<>>)
    IN  [k \in DOMAIN cs |-> cs[k][4]]

\* line 509: the seconds of the clusters of more than 15 minutes
SigTime(t) == t \div 60 > 15

TSig(tp) == Filter(TXY(tp), SigTime)

\* the smallest k with num * 2^k >= den
RECURSIVE Shift(_, _)
Shift(num, den) == IF num >= den THEN 0 ELSE 1 + Shift(2 * num, den)

Pow2(k) == IF k = 0 THEN 1 ELSE 2 ^ k

\* the bits b, b-1, ..., 0 of the binary logarithm of m / 16384 in [1, 2)
RECURSIVE LogBits(_, _)
LogBits(m, b) ==
    IF b < 0 THEN 0
    ELSE LET m2 == (m * m) \div 16384
         IN  IF m2 >= 2 * 16384
             THEN Pow2(b) + LogBits(m2 \div 2, b - 1)
             ELSE LogBits(m2, b - 1)

\* 100000 * ln(num / den) for 0 < num <= den, to a few units
Ln1e5(num, den) ==
    LET k == Shift(num, den)
        m == (num * Pow2(k) * 16384) \div den
    IN  (LogBits(m, 13) * 69315) \div 16384 - k * 69315

\* lines 510-511: -sum(p * log(p + 0.00001)) for p = t_sig / sum(t_sig), in
\* units of 0.00001; log(p + e) is taken as log(p) + e / p
Entropy(t_sig) ==
    LET mins == [k \in DOMAIN t_sig |-> t_sig[k] \div 60]
        total == SumSeq(mins)
        Term(k) == (mins[k] * (Ln1e5(mins[k], total) + total \div mins[k]))
                       \div total
    IN  0 - SumSeq([k \in DOMAIN mins |-> Term(k)])

\* lines 492-506: the radius of gyration of the pauses, nan when pauses of
\* no duration are all there is
Radius(tp) ==
    LET pauses == Filter(tp, IsPause)
        total == SumSeq(MapSeq(pauses, Dur))
        WX(r) == Times(Minutes(r), r.x0)
        WY(r) == Times(Minutes(r), r.y0)
        cx == Div(SumSeq(MapSeq(pauses, WX)), Div(total, 60))
        cy == Div(SumSeq(MapSeq(pauses, WY)), Div(total, 60))
        WR(r) == Times(Minutes(r), great_circle_dist(cx, cy, r.x0, r.y0))
    IN  IF pauses = <<>> THEN 0
        ELSE Div(SumSeq(MapSeq(pauses, WR)), Div(total, 60))

\* lines 512-516: the largest distance of two segment starts
Diameter(tp) ==
    IF Len(tp) = 1 THEN 0
    ELSE PyMax([n \in 1..(Len(tp) * Len(tp)) |->
                   great_circle_dist(tp[1 + ((n - 1) \div Len(tp))].x0,
                                     tp[1 + ((n - 1) \div Len(tp))].y0,
                                     tp[1 + ((n - 1) % Len(tp))].x0,
                                     tp[1 + ((n - 1) % Len(tp))].y0)])

DayStats(tp) ==
    [obs_day |-> ObsDur(Filter(tp, InDayPart)),
     obs_night |-> ObsDur(Filter(tp, InNightPart)),
     radius |-> Radius(tp),
     diameter |-> Diameter(tp),
     num_sig |-> Len(TSig(tp)),
     entropy |-> Entropy(TSig(tp))]

-----------------------------------------------------------------------------
(* The row and the log entry of a window (lines 411-590). *)

\* n times nan
NaNs(n) == [k \in 1..n |-> NaN]

\* HourlyRow with home_time of a window of no observed time left at 0
HourlyRowHomeZero(w, st, pl) ==
    IF st.obs_dur = 0
    THEN <<w.year, w.month, w.day, w.hour, 0, 0>> \o NaNs(10)
         \o (IF places_of_interest = None THEN <<>>
             ELSE NaNs(Len(pl.all_place_times_temp)))
    ELSE <<w.year, w.month, w.day, w.hour,
           Div(st.obs_dur, 60), Div(st.time_at_home, 60), st.dist_traveled,
           st.max_dist_home, Div(st.total_flight_time, 60), st.av_f_len,
           st.sd_f_len, st.av_f_dur, st.sd_f_dur,
           Div(st.total_pause_time, 60), st.av_p_dur, st.sd_p_dur>>
         \o pl.all_place_times_temp

\* lines 413-433 and 446-465; the durations in minutes
HourlyRow(w, st, pl) ==
    IF st.obs_dur = 0
    THEN <<w.year, w.month, w.day, w.hour, 0>> \o NaNs(11)
         \o (IF places_of_interest = None THEN <<>>
             ELSE NaNs(Len(pl.all_place_times_temp)))
    ELSE <<w.year, w.month, w.day, w.hour,
           Div(st.obs_dur, 60), Div(st.time_at_home, 60), st.dist_traveled,
           st.max_dist_home, Div(st.total_flight_time, 60), st.av_f_len,
           st.sd_f_len, st.av_f_dur, st.sd_f_dur,
           Div(st.total_pause_time, 60), st.av_p_dur, st.sd_p_dur>>
         \o pl.all_place_times_temp

\* lines 518-543 and 547-571; the durations in hours, the lengths in km
DailyRow(w, st, ds, pl) ==
    IF st.obs_dur = 0
    THEN <<w.year, w.month, w.day, 0, 0, 0>> \o NaNs(15)
         \o (IF places_of_interest = None THEN <<>>
             ELSE NaNs(Len(pl.all_place_times_temp)))
    ELSE <<w.year, w.month, w.day,
           Div(st.obs_dur, 3600), Div(ds.obs_day, 3600),
           Div(ds.obs_night, 3600), Div(st.time_at_home, 3600),
           Div(st.dist_traveled, 1000), Div(st.max_dist_home, 1000),
           Div(ds.radius, 1000), Div(ds.diameter, 1000), ds.num_sig,
           ds.entropy, Div(st.total_flight_time, 3600),
           Div(st.av_f_len, 1000), Div(st.sd_f_len, 1000),
           Div(st.av_f_dur, 60), Div(st.sd_f_dur, 60),
           Div(st.total_pause_time, 3600), Div(st.av_p_dur, 60),
           Div(st.sd_p_dur, 60)>>
         \o pl.all_place_times_temp

\* the key of the window in log_tags: "d/m/y h:00", "d/m/y", or
\* "d/m/y, datetime" and "d/m/y, nighttime" (lines 435-444, 466-475, 545
\* and 573-590), as the list of its parts
LogLabel(w, obs_dur) ==
    IF option = "hourly" THEN <<w.day, w.month, w.year, w.hour>>
    ELSE IF obs_dur = 0 \/ ~split_day_night THEN <<w.day, w.month, w.year>>
    ELSE IF w.i % 2 = 0 THEN <<w.day, w.month, w.year, "datetime">>
    ELSE <<w.day, w.month, w.year, "nighttime">>

\* TrajAfterClip as if temp were a view of traj: the cut rows written
\* through to the trajectory
TrajAfterClipInPlace(tr, w) ==
    LET mask == IndexRows(tr, w)
        c == Clip(tr, w)
    IN  IF c.error # "none" THEN tr
        ELSE [k \in DOMAIN tr |->
                 IF mask[k]
                 THEN c.temp[Cardinality({j \in 1..k : mask[j]})]
                 ELSE tr[k]]

\* line 224: traj[index_rows, :] with a boolean mask is a copy, so that the
\* assignments to temp at lines 236-284 leave traj as it was
TrajAfterClip(tr, w) == tr

\* lines 191-590: one turn of the window loop
Summarise ==
    /\ pc = "loop"
    /\ LET w == WindowOf(i)
           c == Clip(traj, w)
           st == Stats(c.temp)
           pl == Places(c.temp)
           err == IF c.error # "none" THEN c.error
                  ELSE IF st.error # "none" THEN st.error
                  ELSE pl.error
       IN  /\ win' = [i |-> w.i, i2 |-> w.i2, start_time |-> w.start_time,
                      end_time |-> w.end_time, year |-> w.year,
                      month |-> w.month, day |-> w.day, hour |-> w.hour,
                      t2 |-> w.t2, t3 |-> w.t3,
                      selected |-> SelectMask(traj, IndexRows(traj, w))]
           /\ temp' = c.temp
           /\ traj' = TrajAfterClip(traj, w)
           /\ error' = err
           /\ IF err # "none"
              THEN /\ pc' = "raised"
                   /\ UNCHANGED <<i, summary_stats, log_tags, threshold>>
              ELSE /\ summary_stats' = Append(summary_stats,
                          IF option = "hourly" THEN HourlyRow(w, st, pl)
                          ELSE DailyRow(w, st, DayStats(c.temp), pl))
                   /\ log_tags' = DictSet(log_tags, LogLabel(w, st.obs_dur),
                          IF st.obs_dur = 0 THEN LogNaN
                          ELSE pl.log_tags_temp)
                   /\ threshold' = pl.threshold
                   /\ i' = i + 1
                   /\ pc' = IF i + 1 < no_windows THEN "loop" ELSE "assemble"
    /\ UNCHANGED <<option, places_of_interest, save_log,
                   split_day_night, osm, tries, sleeps, ids, locations, tags,
                   home_x, home_y, start_stamp, end_stamp, window, no_windows,
                   summary_stats2>>
    /\ UNCHANGED main_vars

-----------------------------------------------------------------------------
(* The table (lines 591-726). *)

\* a column name is the list of the strings it is put together from
Col(name) == <<name>>

HourlyColumns ==
    <<"year", "month", "day", "hour", "obs_duration", "home_time",
      "dist_traveled", "max_dist_home", "total_flight_time",
      "av_flight_length", "sd_flight_length", "av_flight_duration",
      "sd_flight_duration", "total_pause_time", "av_pause_duration",
      "sd_pause_duration">>

DailyColumns ==
    <<"year", "month", "day", "obs_duration", "obs_day", "obs_night",
      "home_time", "dist_traveled", "max_dist_home", "radius", "diameter",
      "num_sig_places", "entropy", "total_flight_time", "av_flight_length",
      "sd_flight_length", "av_flight_duration", "sd_flight_duration",
      "total_pause_time", "av_pause_duration", "sd_pause_duration">>

\* lines 592-596 and 641-645
PlacesOfInterest2 ==
    IF places_of_interest = None THEN <<>>
    ELSE Append(CHOOSE l \in places_of_interest : TRUE, "other")

\* lines 597-639 and 646-694
Columns ==
    MapSeq((IF option = "hourly" THEN HourlyColumns ELSE DailyColumns)
           \o PlacesOfInterest2, Col)

\* EmptyTable without the columns of the places
EmptyTableNoPlaces ==
    [columns |-> MapSeq(IF option = "hourly" THEN HourlyColumns
                        ELSE DailyColumns, Col),
     rows |-> <<>>]

\* lines 640-694: the table of no window
EmptyTable ==
    [columns |-> MapSeq((IF option = "hourly" THEN HourlyColumns
                         ELSE DailyColumns) \o PlacesOfInterest2, Col),
     rows |-> <<>>]

\* s[a:] of Python, a counted from 0
From(s, a) == SubSeq(s, a + 1, Len(s))

\* s[a::2] of Python
EveryOther(s, a) ==
    [k \in 1..((Len(s) - a + 1) \div 2) |-> s[a + 2 * k - 1]]

\* the position of the column named name, 0 when there is none
ColumnIndex(cols, name) ==
    IF \E k \in DOMAIN cols : cols[k] = name
    THEN CHOOSE k \in DOMAIN cols : cols[k] = name
    ELSE 0

\* s without the positions in drop
Without(s, drop) == SelectMask(s, [k \in DOMAIN s |-> k \notin drop])

\* s with v put in before position a, counted from 0
InsertAt(s, a, v) == SubSeq(s, 1, a) \o <<v>> \o From(s, a)

\* the columns dropped at lines 708-716
DroppedColumns ==
    {<<"obs_day", "_datetime">>, <<"obs_night", "_datetime">>,
     <<"obs_day", "_nighttime">>, <<"obs_night", "_nighttime">>}

\* MergeDayNight with the obs_duration of the day alone
MergeDayNightDayOnly(t) ==
    LET datetime == EveryOther(t.rows, 0)
        nighttime == EveryOther(t.rows, 1)
        cols == SubSeq(t.columns, 1, 3)
                \o [k \in 1..(Len(t.columns) - 3) |->
                       t.columns[k + 3] \o <<"_datetime">>]
                \o [k \in 1..(Len(t.columns) - 3) |->
                       t.columns[k + 3] \o <<"_nighttime">>]
        rows == [k \in DOMAIN datetime |->
                    datetime[k] \o From(nighttime[k], 3)]
        drop == {k \in DOMAIN cols : cols[k] \in DroppedColumns}
        od == ColumnIndex(Without(cols, drop),
                          <<"obs_duration", "_datetime">>)
    IN  [columns |-> InsertAt(Without(cols, drop), 3, Col("obs_duration")),
         rows |-> [k \in DOMAIN rows |->
                      LET r == Without(rows[k], drop)
                      IN  InsertAt(r, 3, r[od])]]

\* lines 696-722: the rows of the days and of the nights side by side
MergeDayNight(t) ==
    LET datetime == EveryOther(t.rows, 0)
        nighttime == EveryOther(t.rows, 1)
        cols == SubSeq(t.columns, 1, 3)
                \o [k \in 1..(Len(t.columns) - 3) |->
                       t.columns[k + 3] \o <<"_datetime">>]
                \o [k \in 1..(Len(t.columns) - 3) |->
                       t.columns[k + 3] \o <<"_nighttime">>]
        rows == [k \in DOMAIN datetime |->
                    datetime[k] \o From(nighttime[k], 3)]
        drop == {k \in DOMAIN cols : cols[k] \in DroppedColumns}
        od == ColumnIndex(Without(cols, drop),
                          <<"obs_duration", "_datetime">>)
        on == ColumnIndex(Without(cols, drop),
                          <<"obs_duration", "_nighttime">>)
    IN  [columns |-> InsertAt(Without(cols, drop), 3, Col("obs_duration")),
         rows |-> [k \in DOMAIN rows |->
                      LET r == Without(rows[k], drop)
                      IN  InsertAt(r, 3, Plus(r[od], r[on]))]]

Assemble ==
    /\ pc = "assemble"
    /\ LET t == IF no_windows > 0
                THEN [columns |-> Columns, rows |-> summary_stats]
                ELSE EmptyTable
       IN  summary_stats2' = IF split_day_night THEN MergeDayNight(t) ELSE t
    /\ pc' = "returned"
    /\ UNCHANGED <<traj, option, places_of_interest, save_log, threshold,
                   split_day_night, osm, tries, sleeps, ids, locations, tags,
                   home_x, home_y, start_stamp, end_stamp, window, no_windows,
                   i, win, temp, summary_stats, log_tags, error>>
    /\ UNCHANGED main_vars

-----------------------------------------------------------------------------

Next == Setup \/ Request \/ Plan \/ Summarise \/ Assemble

Spec == Init /\ [][Next]_vars

SpecHourly == InitHourly /\ [][Next]_vars

SpecDaily == InitDaily /\ [][Next]_vars

\* the hourly runs in which the while loop of the query goes on: a request
\* answers or times out (timeout=300, line 108) and a sleep ends
SpecHourlyFair == InitHourly /\ [][Next]_vars /\ WF_vars(Request)

-----------------------------------------------------------------------------
(* gps_stats_main (lines 756-1021): the loop over the users of a study. *)

\* the most users of a study
MaxUsers == 3

Users == {"a", "b", "c"}

\* the lists of at most MaxUsers users, none twice
UserLists ==
    {l \in UNION {[1..n -> Users] : n \in 0..MaxUsers} :
        \A j, k \in DOMAIN l : j # k => l[j] # l[k]}

\* what gps_quality_check may return, in tenths
Qualities == {3, 6, 7}

\* lines 911-1014: the steps of the loop's body for one user, in their order
StepsOf(opt, st, sl) ==
    <<"quality", "read", "impute", "pickle">>
    \o (IF st THEN <<"trajectory">> ELSE <<>>)
    \o (IF opt = "both"
        THEN <<"summaries_hourly", "write_hourly",
               "summaries_daily", "write_daily">>
        ELSE <<"summaries", "write">>)
    \o (IF sl THEN <<"logs">> ELSE <<>>)

UserLine == "User: "
ReadLine == "Read in the csv files ..."
LowQualityLine == "GPS data are not collected or the data quality is too low."
ErrorLine == "An error occured when processing the data."
ListTypeLine == "Places of interest need to be of list type"

\* the arguments of gps_stats_main; places_of_interest is None, a list or
\* a string
InitMain ==
    /\ option \in {"hourly", "daily", "both"}
    /\ poi_type \in {"NoneType", "list", "str"}
    /\ places_of_interest = IF poi_type = "list" THEN {<<"cafe">>} ELSE None
    /\ save_log \in BOOLEAN
    /\ save_traj \in BOOLEAN
    /\ threshold = None
    /\ split_day_night = FALSE
    /\ beiwe_id \in UserLists
    /\ main_pc = "check"
    /\ id_index = 0
    /\ steps_done = <<>>
    /\ stdout = <<>>
    /\ traj = <<>> /\ osm = <<>>
    /\ pc = "start"
    /\ tries = 0 /\ sleeps = 0
    /\ ids = <<>> /\ locations = <<>> /\ tags = <<>>
    /\ home_x = 0 /\ home_y = 0
    /\ start_stamp = 0 /\ end_stamp = 0 /\ window = 0 /\ no_windows = 0
    /\ i = 0
    /\ win = [i |-> 0 - 1, i2 |-> 0, start_time |-> 0, end_time |-> 0,
              year |-> 0, month |-> 0, day |-> 0, hour |-> 0,
              t2 |-> 0, t3 |-> 0, selected |-> <<>>]
    /\ temp = <<>>
    /\ summary_stats = <<>>
    /\ log_tags = <<>>
    /\ summary_stats2 = [columns |-> <<>>, rows |-> <<>>]
    /\ error = "none"

\* the state of gps_summaries
summaries_vars ==
    <<traj, option, places_of_interest, save_log, threshold,
      split_day_night, osm, pc, tries, sleeps, ids, locations, tags,
      home_x, home_y, start_stamp, end_stamp, window, no_windows, i,
      win, temp, summary_stats, log_tags, summary_stats2, error>>

\* lines 819-821: the test on the type of places_of_interest
ExitsAtTypeCheck(type) == type = "list" /\ type # "NoneType"

\* lines 819-906: the check of the arguments, and what comes before the
\* loop
CheckArguments ==
    /\ main_pc = "check"
    /\ IF ExitsAtTypeCheck(poi_type)
       THEN /\ stdout' = Append(stdout, <<"", ListTypeLine>>)
            /\ main_pc' = "exited"
       ELSE /\ main_pc' = IF Len(beiwe_id) > 0 THEN "loop" ELSE "done"
            /\ UNCHANGED stdout
    /\ UNCHANGED <<poi_type, save_traj, beiwe_id, id_index, steps_done>>
    /\ UNCHANGED summaries_vars

\* lines 1019-1021 with continue for break
AfterExceptionContinue(k) ==
    IF k < Len(beiwe_id) THEN "loop" ELSE "done"

\* lines 1019-1021: where the loop is after an exception in the body for
\* the user k
AfterException(k) == "done"

\* lines 907-1021: the body of the loop for one user.  What
\* gps_quality_check returns, and the step that raises (the one after the
\* last when none does), are the world's.
ProcessUser ==
    /\ main_pc = "loop"
    /\ LET k == id_index + 1
           id_code == beiwe_id[k]
           steps == StepsOf(option, save_traj, save_log)
       IN  \E quality \in Qualities, raises \in 1..(Len(steps) + 1) :
              LET last == IF raises = 1 THEN 0
                          ELSE IF quality > 6 THEN raises - 1
                          ELSE 1
                  raised ==
                      /\ raises <= Len(steps)
                      /\ raises = 1 \/ quality > 6
                  lines ==
                      <<<<id_code, UserLine>>>>
                      \o (IF last >= 1 /\ quality > 6
                          THEN <<<<id_code, ReadLine>>>> ELSE <<>>)
                      \o (IF last >= 1 /\ ~(quality > 6)
                          THEN <<<<id_code, LowQualityLine>>>> ELSE <<>>)
                      \o (IF raised
                          THEN <<<<id_code, ErrorLine>>>> ELSE <<>>)
              IN  /\ steps_done' =
                         steps_done \o
                         [n \in 1..last |-> <<id_code, steps[n]>>]
                  /\ stdout' = stdout \o lines
                  /\ id_index' = k
                  /\ main_pc' =
                         IF raised THEN AfterException(k)
                         ELSE IF k < Len(beiwe_id) THEN "loop" ELSE "done"
    /\ UNCHANGED <<poi_type, save_traj, beiwe_id>>
    /\ UNCHANGED summaries_vars

NextMain == CheckArguments \/ ProcessUser

SpecMain == InitMain /\ [][NextMain]_vars

-----------------------------------------------------------------------------
(* The properties. *)

\* a window has gone through the body of the loop; win and temp are its
Processed == win.i >= 0

\* the row of the window in win is the last of summary_stats
Appended ==
    /\ Processed
    /\ error = "none"
    /\ pc \in {"loop", "assemble", "returned"}

LastRow == summary_stats[Len(summary_stats)]

\* the number of calendar windows between start_stamp and end_stamp
CalendarWindows == (end_stamp - start_stamp) \div window

\* the window in win is neither the first nor the last calendar window
InteriorWindow == win.i2 > 0 /\ win.i2 < CalendarWindows - 1

\* the bounds of the window in win: 08:00 and 20:00 for a Day window
WindowStart == IF IsDay(win) THEN win.t2 ELSE win.start_time

WindowEnd == IF IsDay(win) THEN win.t3 ELSE win.end_time

\* every segment of the trajectory takes time
Lasting == \A k \in DOMAIN traj : traj[k].t1 > traj[k].t0

\* C1: in hourly mode the obs_duration of the rows, in minutes, sum to the
\* total duration of the observed segments that intersect the span from
\* start_stamp to end_stamp, no observed time being counted in two windows:
\* the sum is at most the whole duration of those segments and at least the
\* time they spend within the span (the room left for the cut at the ends).
C1NoDoubleCounting ==
    (option = "hourly" /\ pc = "returned" /\ no_windows > 0 /\ Lasting) =>
        LET InSpan(r) ==
                IsObs(r) /\ r.t0 < end_stamp /\ r.t1 > start_stamp
            Overlap(r) ==
                (IF r.t1 < end_stamp THEN r.t1 ELSE end_stamp)
                - (IF r.t0 > start_stamp THEN r.t0 ELSE start_stamp)
            ObsDuration(row) == row[5]
        IN  /\ SumSeq(MapSeq(summary_stats, ObsDuration)) * 60
                  <= SumSeq(MapSeq(Filter(traj, InSpan), Dur))
            /\ SumSeq(MapSeq(summary_stats, ObsDuration)) * 60
                  >= SumSeq(MapSeq(Filter(traj, InSpan), Overlap))

\* the selected set of the window in win is one segment that spans both
\* bounds of the window
SingleSpanning ==
    /\ Processed
    /\ Len(win.selected) = 1
    /\ win.selected[1].t0 <= WindowStart
    /\ win.selected[1].t1 >= WindowEnd

\* temp is one segment that runs from the start to the end of the window
ClippedToWindow ==
    /\ Len(temp) = 1
    /\ temp[1].t0 = WindowStart
    /\ temp[1].t1 = WindowEnd

\* C2: when the selected set of a window is one segment that spans both
\* bounds of the window, the segment is cut to run from the start to the
\* end of the window, whichever window of the series it is.
C2ClippedExactly == SingleSpanning => ClippedToWindow

\* what the code does keep: in a window that is neither the first nor the
\* last calendar window, the one segment is cut to the window
InteriorClippedExactly ==
    (SingleSpanning /\ InteriorWindow) => ClippedToWindow

\* an interior window cut out of the middle of one longer segment
InteriorClipped ==
    /\ SingleSpanning
    /\ InteriorWindow
    /\ win.selected[1].t0 < WindowStart
    /\ win.selected[1].t1 > WindowEnd
    /\ ClippedToWindow

\* the Night window in win lies within the time the trajectory covers
NightCovered ==
    /\ Processed
    /\ IsNight(win)
    /\ traj[1].t0 <= win.start_time
    /\ traj[Len(traj)].t1 >= win.end_time

\* C3: for a Night window that the contiguous segments of the trajectory
\* cover, the clipped segments cover 00:00-08:00 and 20:00-24:00 of the
\* day: their durations sum to 12 hours. Stated of the nights the code
\* clips (those after the first day) that raise no exception.
C3NightSumsTo12h ==
    (NightCovered /\ Lasting /\ win.i2 > 0 /\ error = "none") =>
        SumSeq(MapSeq(temp, Dur)) = 12 * 3600

\* the columns of a row that identify its window
IdColumns == IF option = "hourly" THEN 4 ELSE 3

\* the columns obs_duration, and obs_day and obs_night of a daily row
ObsColumns == IF option = "hourly" THEN {5} ELSE {4, 5, 6}

\* the number of columns of a row
RowLength ==
    (IF option = "hourly" THEN 16 ELSE 21)
    + (IF places_of_interest = None THEN 0
       ELSE Len(CHOOSE l \in places_of_interest : TRUE) + 1)

\* the last row carries the date, and the hour, of the window in win
IdentifiedRow ==
    /\ Len(LastRow) = RowLength
    /\ LastRow[1] = 1970
    /\ LastRow[2] = 1
    /\ LastRow[3] = 1 + (win.start_time \div 86400)
    /\ option = "hourly" => LastRow[4] = (win.start_time % 86400) \div 3600

\* the key of the window in win in the log: its date, and its hour
DateLabel ==
    IF option = "hourly"
    THEN <<LastRow[3], LastRow[2], LastRow[1], LastRow[4]>>
    ELSE <<LastRow[3], LastRow[2], LastRow[1]>>

\* the log entry of the window in win is nan
LogEntryNaN ==
    /\ DictHas(log_tags, DateLabel)
    /\ DictGet(log_tags, DateLabel) = LogNaN

\* a row has been written for the window in win, of no observed time
ZeroObserved == Appended /\ ObsDur(temp) = 0

Overlaps(r) ==
    IF IsDay(win) THEN r.t0 < win.t3 /\ r.t1 > win.t2
    ELSE IF IsNight(win)
    THEN \/ r.t0 < win.t2 /\ r.t1 > win.start_time
         \/ r.t0 < win.end_time /\ r.t1 > win.t3
    ELSE r.t0 < win.end_time /\ r.t1 > win.start_time

\* no segment overlaps the window in win: its selected set is empty
NoSegmentOverlaps ==
    /\ Processed
    /\ win.selected = <<>>
    /\ \A k \in DOMAIN traj : ~Overlaps(traj[k])

\* C5: a window that no segment overlaps does not abort the run: no
\* exception leaves the loop and the window gets its row of nan. Stated of
\* the trajectories whose segments all take time.
C5EmptyWindowNoAbort ==
    (NoSegmentOverlaps /\ Lasting) => (error = "none" /\ pc # "raised")

\* the table of a daily run with split_day_night has been returned
Merged == pc = "returned" /\ option = "daily" /\ split_day_night

\* the row of the day, and of the night, of calendar day k
DayRow(k) == summary_stats[2 * k - 1]

NightRow(k) == summary_stats[2 * k]

\* the columns of a daily row after year, month and day that the merge
\* keeps, each with its position in the row
KeptColumns ==
    {<<"obs_duration", 4>>, <<"home_time", 7>>, <<"dist_traveled", 8>>,
     <<"max_dist_home", 9>>, <<"radius", 10>>, <<"diameter", 11>>,
     <<"num_sig_places", 12>>, <<"entropy", 13>>,
     <<"total_flight_time", 14>>, <<"av_flight_length", 15>>,
     <<"sd_flight_length", 16>>, <<"av_flight_duration", 17>>,
     <<"sd_flight_duration", 18>>, <<"total_pause_time", 19>>,
     <<"av_pause_duration", 20>>, <<"sd_pause_duration", 21>>}

\* the column named name occurs once in the returned table, and in every
\* row k it holds the field at position pos of Half(k)
OnceFrom(name, pos, Half(_)) ==
    /\ Cardinality({j \in DOMAIN summary_stats2.columns :
                       summary_stats2.columns[j] = name}) = 1
    /\ \A k \in DOMAIN summary_stats2.rows :
          /\ Len(summary_stats2.rows[k]) = Len(summary_stats2.columns)
          /\ summary_stats2.rows[k][ColumnIndex(summary_stats2.columns,
                                                name)] = Half(k)[pos]

\* C6: with daily resolution and split_day_night the returned table has one
\* row per calendar day, made of the row of the day and the row of the
\* night: year, month and day, then obs_duration as the sum of the two
\* obs_duration, then every other column once with _datetime and once with
\* _nighttime, and no obs_day or obs_night column.
C6MergedByDay ==
    Merged =>
        /\ Len(summary_stats2.rows) = CalendarWindows
        /\ 2 * Len(summary_stats2.rows) = Len(summary_stats)
        /\ Len(summary_stats2.columns) = 4 + 2 * Cardinality(KeptColumns)
        /\ SubSeq(summary_stats2.columns, 1, 4)
              = << <<"year">>, <<"month">>, <<"day">>, <<"obs_duration">> >>
        /\ \A k \in DOMAIN summary_stats2.rows :
              /\ SubSeq(summary_stats2.rows[k], 1, 3)
                    = SubSeq(DayRow(k), 1, 3)
              /\ SubSeq(summary_stats2.rows[k], 1, 3)
                    = SubSeq(NightRow(k), 1, 3)
              /\ summary_stats2.rows[k][4] = DayRow(k)[4] + NightRow(k)[4]
        /\ \A c \in KeptColumns :
              /\ OnceFrom(<<c[1], "_datetime">>, c[2], DayRow)
              /\ OnceFrom(<<c[1], "_nighttime">>, c[2], NightRow)
        /\ \A j \in DOMAIN summary_stats2.columns :
              summary_stats2.columns[j][1] \notin {"obs_day", "obs_night"}

\* a returned day whose day and night were both observed
C6Witness ==
    /\ Merged
    /\ \E k \in DOMAIN summary_stats2.rows :
          /\ DayRow(k)[4] > 0
          /\ NightRow(k)[4] > 0
          /\ summary_stats2.rows[k][4] = DayRow(k)[4] + NightRow(k)[4]

\* the window count has been computed
Planned == window # 0

\* the columns of the table of the resolution, then one for each place
\* asked for, then other
FullSchema ==
    (IF option = "hourly"
     THEN << <<"year">>, <<"month">>, <<"day">>, <<"hour">>,
             <<"obs_duration">>, <<"home_time">>, <<"dist_traveled">>,
             <<"max_dist_home">>, <<"total_flight_time">>,
             <<"av_flight_length">>, <<"sd_flight_length">>,
             <<"av_flight_duration">>, <<"sd_flight_duration">>,
             <<"total_pause_time">>, <<"av_pause_duration">>,
             <<"sd_pause_duration">> >>
     ELSE << <<"year">>, <<"month">>, <<"day">>, <<"obs_duration">>,
             <<"obs_day">>, <<"obs_night">>, <<"home_time">>,
             <<"dist_traveled">>, <<"max_dist_home">>, <<"radius">>,
             <<"diameter">>, <<"num_sig_places">>, <<"entropy">>,
             <<"total_flight_time">>, <<"av_flight_length">>,
             <<"sd_flight_length">>, <<"av_flight_duration">>,
             <<"sd_flight_duration">>, <<"total_pause_time">>,
             <<"av_pause_duration">>, <<"sd_pause_duration">> >>)
    \o (IF places_of_interest = None THEN <<>>
        ELSE LET pois == CHOOSE l \in places_of_interest : TRUE
             IN  [k \in 1..(Len(pois) + 1) |->
                     IF k <= Len(pois) THEN <<pois[k]>> ELSE <<"other">>])

\* C7: when the window count is zero or negative, gps_summaries raises no
\* error and returns a table of no row with all the columns of the
\* resolution, then one for each place asked for and other, and an empty
\* log.
C7EmptySpanEmptyTable ==
    (Planned /\ no_windows <= 0) =>
        /\ pc \in {"assemble", "returned"}
        /\ error = "none"
        /\ log_tags = <<>>
        /\ pc = "returned" =>
              /\ summary_stats2.rows = <<>>
              /\ summary_stats2.columns = FullSchema

\* a returned table of no row, with the columns of the places asked for
C7Witness ==
    /\ Planned
    /\ no_windows <= 0
    /\ pc = "returned"
    /\ places_of_interest # None
    /\ summary_stats2.rows = <<>>
    /\ summary_stats2.columns[Len(summary_stats2.columns)] = <<"other">>

\* C8: start_stamp is the first hour or day boundary at or after the start
\* of the first segment: it is not before that start, and less than one
\* window after it.
C8StartsWithinData ==
    (Planned /\ Lasting) =>
        /\ start_stamp >= traj[1].t0
        /\ start_stamp - traj[1].t0 < window

\* C9: end_stamp is computed from the end of the last segment: that time
\* truncated to the hour, or truncated to midnight plus 24 hours; the
\* number of hourly windows follows from it.
C9EndFromLastEnd ==
    (Planned /\ Lasting) =>
        LET t_end == traj[Len(traj)].t1
        IN  /\ end_stamp = IF option = "hourly"
                           THEN (t_end \div 3600) * 3600
                           ELSE (t_end \div 86400) * 86400 + 86400
            /\ option = "hourly" =>
                   no_windows
                       = ((t_end \div 3600) * 3600 - start_stamp) \div 3600

\* the columns of the places and of other in the last row
PlaceColumns ==
    SubSeq(LastRow, (IF option = "hourly" THEN 16 ELSE 21) + 1, Len(LastRow))

\* the hours at each pause cluster of the window in win
DwellTimes ==
    LET Hours(c) == Div(c[3], 60)
    IN  MapSeq(PauseArray(temp), Hours)

\* C10: the dwell time of every pause cluster of a window goes to one
\* bucket, the first matching category or other, so that the columns of
\* the places and other of the window sum to the dwell times of its
\* clusters.
C10OneBucketEach ==
    (Appended /\ places_of_interest # None /\ ObsDur(temp) > 0) =>
        SumSeq(PlaceColumns) = SumSeq(DwellTimes)

\* the log is asked for and no place of interest is: save_log=True,
\* places_of_interest=None
LogOnly == save_log /\ places_of_interest = None

\* C11: the visit log does not need the categories: with save_log=True and
\* places_of_interest=None a window that has segments is processed without
\* an exception, its row has no place column, and the run is not left by a
\* raise.
C11LogWithoutPlaces ==
    (LogOnly /\ Lasting /\ Processed /\ win.selected # <<>>) =>
        /\ error = "none"
        /\ pc # "raised"
        /\ Len(LastRow) = IF option = "hourly" THEN 16 ELSE 21

\* the segment r has its four coordinates
Located(r) == r.x0 # NaN /\ r.y0 # NaN /\ r.x1 # NaN /\ r.y1 # NaN

\* C12: a segment of no duration that is chosen for the interpolation at a
\* bound of a window is not divided by: its coordinates stay as they were,
\* and no nan or infinite coordinate is among the segments of the window.
C12NoDivisionByZero ==
    Processed =>
        /\ \A k \in DOMAIN temp : Located(temp[k])
        /\ \A k \in DOMAIN temp :
              temp[k].t1 = temp[k].t0 => temp[k] \in Range(traj)

\* a daily row with observed time has been written for the window in win
DailyObserved == Appended /\ option = "daily" /\ ObsDur(temp) > 0

\* the entropy of the last row, a daily one, in units of 0.00001
ReportedEntropy == LastRow[13]

\* C13: the entropy of a daily window with observed time is not negative,
\* and it is 0 when one cluster alone passes the filter of 15 minutes.
C13EntropyNotNegative ==
    (DailyObserved /\ ReportedEntropy # NaN) =>
        /\ ReportedEntropy >= 0
        /\ Len(TSig(temp)) = 1 => ReportedEntropy = 0

\* what the code does keep: the entropy is at least -0.00001, the value it
\* has for one cluster
EntropyAboveMinusEpsilon ==
    (DailyObserved /\ ReportedEntropy # NaN) =>
        /\ ReportedEntropy >= 0 - 1
        /\ Len(TSig(temp)) = 1 => ReportedEntropy = 0 - 1

\* the trajectory is one observed flight of 600 s within one clock hour
\* and nothing else, and the summaries are hourly
OneFlightInAnHour ==
    /\ option = "hourly"
    /\ Len(traj) = 1
    /\ traj[1].s = FLIGHT /\ traj[1].obs = 1
    /\ traj[1].t1 - traj[1].t0 = 600
    /\ traj[1].t0 \div 3600 = (traj[1].t1 - 1) \div 3600
    /\ Mov(traj[1]) = 1113

\* C14: for a trajectory of one observed flight of 600 s within one clock
\* hour the hourly table has a row for that hour with obs_duration 10,
\* total_flight_time 10, total_pause_time 0 and dist_traveled 1113.
C14RowOfTheFlight ==
    (OneFlightInAnHour /\ pc = "returned") =>
        /\ Len(summary_stats2.rows) = 1
        /\ summary_stats2.rows[1][4] = traj[1].t0 \div 3600
        /\ summary_stats2.rows[1][5] = 10
        /\ summary_stats2.rows[1][7] = 1113
        /\ summary_stats2.rows[1][9] = 10
        /\ summary_stats2.rows[1][14] = 0

\* C14, amended: for a trajectory of one observed flight of 600 s within
\* one clock hour the hourly table has no row: start_stamp is the hour
\* after the flight's start and end_stamp the hour of its start, the window
\* count is -1, no window is processed, and the table returned is empty
\* with an empty log.
C14NoRowForTheFlight ==
    (OneFlightInAnHour /\ Planned) =>
        /\ start_stamp = (traj[1].t0 \div 3600) * 3600 + 3600
        /\ end_stamp = (traj[1].t0 \div 3600) * 3600
        /\ no_windows = 0 - 1
        /\ pc \in {"assemble", "returned"}
        /\ ~Processed
        /\ error = "none"
        /\ summary_stats = <<>>
        /\ log_tags = <<>>
        /\ pc = "returned" => summary_stats2.rows = <<>>

\* the empty table returned for the flight
C14Witness ==
    /\ OneFlightInAnHour
    /\ pc = "returned"
    /\ no_windows = 0 - 1
    /\ summary_stats2.rows = <<>>
    /\ Len(summary_stats2.columns) = 16

\* the window in win belongs to the first or to the last calendar window
FirstOrLastWindow == win.i2 = 0 \/ win.i2 = CalendarWindows - 1

\* C15: the end points are interpolated in interior windows only: the
\* windows of the first and of the last calendar window keep the selected
\* segments as they are, with split_day_night as without.
C15EndsKeptRaw ==
    (Processed /\ Lasting /\ FirstOrLastWindow) => temp = win.selected

\* what the code does keep: without split_day_night the first and the last
\* window keep the selected segments as they are, and with it the windows
\* of the first day do
FirstKeptRaw ==
    (Processed /\ (win.i2 = 0 \/ (~split_day_night /\ FirstOrLastWindow)))
        => temp = win.selected

\* C16: no step of gps_summaries changes the trajectory: every row of traj
\* keeps its status, coordinates, timestamps and observed flag, so that
\* each window is cut from the original segments.
C16TrajUnchanged == [][traj' = traj]_vars

\* a window whose segments were cut, after which the trajectory still
\* holds the segments as they were selected
C16Witness ==
    /\ Processed
    /\ error = "none"
    /\ temp # win.selected
    /\ win.selected = SelectMask(traj, IndexRows(traj, win))
    /\ i > 1

\* the pauses of the window in win farther than 5 m from home
AwayPauses ==
    LET Away(r) ==
            /\ IsPause(r)
            /\ Gt(great_circle_dist(r.x0, r.y0, home_x, home_y), 5)
    IN  Filter(temp, Away)

\* the minutes of each pause cluster of the window in win
ClusterMinutes ==
    LET Stay(c) == c[3]
    IN  MapSeq(PauseArray(temp), Stay)

\* the window in win was clustered (line 303)
Clustered ==
    /\ Processed
    /\ places_of_interest # None \/ save_log
    /\ \A k \in DOMAIN temp : Located(temp[k]) /\ Dur(temp[k]) > 0

\* C17: every pause farther than 5 m from home seeds one cluster or adds
\* its minutes to one cluster only, so that the minutes of the clusters of
\* a window sum to the minutes of its pauses away from home, also when a
\* pause is within 5 m of two clusters.
C17MinutesConserved ==
    Clustered => SumSeq(ClusterMinutes) = SumSeq(MapSeq(AwayPauses, Minutes))

\* every geometry the query returned has exactly two vertices
TwoVerticesOnly ==
    /\ locations # <<>>
    /\ \A n \in DOMAIN locations : Len(locations[n][2]) = 2

\* the place columns of a window none of whose clusters is at a place
AllToOther ==
    [j \in 1..Len(PlaceColumns) |->
        IF j < Len(PlaceColumns) THEN 0 ELSE SumSeq(DwellTimes)]

\* C18: a geometry of exactly two vertices matches no cluster, in the
\* attribution and in the log, and raises nothing: when the geometries are
\* all of two vertices, the dwell time of every cluster of a window is in
\* 'other', the log entry of the window holds no tags, and no exception
\* has been raised.
C18TwoVerticesNeverMatch ==
    (TwoVerticesOnly /\ places_of_interest # None) =>
        /\ error = "none"
        /\ pc # "raised"
        /\ (Appended /\ ObsDur(temp) > 0) =>
              /\ PlaceColumns = AllToOther
              /\ DictGet(log_tags, DateLabel) = <<>>

\* a window with a cluster of an hour or more at the first vertex of a
\* geometry of two vertices, the places and the log asked for
C18Witness ==
    /\ TwoVerticesOnly /\ places_of_interest # None /\ save_log
    /\ Appended /\ ObsDur(temp) > 0
    /\ \E k \in DOMAIN PauseArray(temp) :
          /\ PauseArray(temp)[k][1] = locations[1][2][1][1]
          /\ PauseArray(temp)[k][2] = locations[1][2][1][2]
          /\ PauseArray(temp)[k][3] >= 60
    /\ PlaceColumns[Len(PlaceColumns)] > 0

\* the users of the lines of stdout that open an iteration of the loop, in
\* their order
Seen ==
    LET Opens(l) == l[2] = UserLine
        User(l) == l[1]
    IN  MapSeq(Filter(stdout, Opens), User)

\* an exception was raised in the body of the loop for the user u
RaisedFor(u) == \E n \in DOMAIN stdout : stdout[n] = <<u, ErrorLine>>

\* the user u was passed over for the quality of the data
SkippedFor(u) == \E n \in DOMAIN stdout : stdout[n] = <<u, LowQualityLine>>

\* no step of the body was done, and no line written, for the user u
Untouched(u) ==
    /\ \A n \in DOMAIN steps_done : steps_done[n][1] # u
    /\ \A n \in DOMAIN stdout : stdout[n][1] # u

\* C19: gps_stats_main goes through the users in the order of the list;
\* the first user whose processing raises an exception ends the loop, and
\* nothing is read, imputed or written for a later user; a user passed
\* over for a quality of 0.6 or less does not end the loop.
C19FirstExceptionStops ==
    main_pc \in {"loop", "done"} =>
        /\ Seen = SubSeq(beiwe_id, 1, id_index)
        /\ \A k \in DOMAIN beiwe_id :
              RaisedFor(beiwe_id[k]) =>
                  /\ main_pc = "done"
                  /\ id_index = k
                  /\ \A l \in (k + 1)..Len(beiwe_id) :
                        Untouched(beiwe_id[l])
        /\ \A k \in DOMAIN beiwe_id :
              (SkippedFor(beiwe_id[k]) /\ ~RaisedFor(beiwe_id[k])
                  /\ k < Len(beiwe_id)) =>
                  main_pc = "loop" \/ id_index > k
        /\ (main_pc = "done" /\ \A u \in Users : ~RaisedFor(u)) =>
              id_index = Len(beiwe_id)

\* the first user was passed over for the quality and the loop went on,
\* the second raised after its data was read, and the loop ended with the
\* third user untouched
C19Witness ==
    /\ main_pc = "done"
    /\ Len(beiwe_id) = 3
    /\ id_index = 2
    /\ SkippedFor(beiwe_id[1]) /\ ~RaisedFor(beiwe_id[1])
    /\ \E n \in DOMAIN steps_done : steps_done[n] = <<beiwe_id[2], "read">>
    /\ RaisedFor(beiwe_id[2])
    /\ Untouched(beiwe_id[3])

\* C20: gps_stats_main takes a list for places_of_interest and does not
\* leave with 'Places of interest need to be of list type' then; it leaves
\* so only for a value that is neither None nor a list.
C20ListAccepted ==
    /\ poi_type = "list" => main_pc # "exited"
    /\ main_pc = "exited" => poi_type \notin {"NoneType", "list"}

\* a request was answered with a failure that was not the last: the loop
\* is where it was
Retried == pc = "query" /\ pc' = "query" /\ tries' # tries

\* C21: the query loop of gps_summaries ends: at most 3 requests are made,
\* the first answer of status 200 leaves the loop at once, the third
\* failure in a row leaves the process, and the loop sleeps once after each
\* failure but the last.
C21QueryLoopEnds ==
    /\ [](tries <= 2 /\ sleeps = tries)
    /\ [](pc = "exited" => tries = 2 /\ sleeps = 2)
    /\ [][pc = "query" =>
            \/ pc' = "plan" /\ UNCHANGED <<tries, sleeps>>
            \/ pc' = "exited" /\ tries = 2 /\ UNCHANGED <<tries, sleeps>>
            \/ Retried /\ tries' = tries + 1 /\ sleeps' = sleeps + 1]_vars
    /\ (pc = "query") ~> (pc \in {"plan", "exited"})

\* the process was left after three failures and two sleeps
C21Witness == pc = "exited" /\ tries = 2 /\ sleeps = 2

\* each segment of the trajectory starts when the one before it ends
Contiguous ==
    \A k \in 1..(Len(traj) - 1) : traj[k + 1].t0 = traj[k].t1

\* the length of the window in win, in the unit of obs_duration: minutes
\* of an hour, hours of a day or of its half
WindowLength ==
    IF option = "hourly" THEN 60
    ELSE IF IsDay(win) \/ IsNight(win) THEN 12
    ELSE 24

\* C22: the obs_duration of the row of a window of a contiguous trajectory
\* is at most the length of the window, 60 minutes, 24 hours or 12 hours,
\* the first and the last window of the series included.
C22ObservedWithinWindow ==
    (Appended /\ Contiguous /\ Lasting) =>
        LastRow[IdColumns + 1] <= WindowLength

\* what the code does keep: the bound in the windows that are neither the
\* first nor the last calendar window
InteriorObservedWithinWindow ==
    (Appended /\ Contiguous /\ Lasting /\ InteriorWindow) =>
        LastRow[IdColumns + 1] <= WindowLength

\* the loop over the windows has ended without an exception
AllProcessed ==
    /\ pc \in {"assemble", "returned"}
    /\ error = "none"
    /\ Lasting
    /\ \E k \in DOMAIN traj : IsObs(traj[k])

\* C23: when all windows have been processed the log holds one entry for
\* each, under a label of its own, as many entries as rows were appended
\* before the day and night rows are merged; so it is too with
\* split_day_night when the Day or the Night window of a day has no
\* observed time.
C23OneEntryPerWindow ==
    AllProcessed => Len(log_tags) = Len(summary_stats)

\* what the code does keep: one entry for each window when the days are
\* not split
UnsplitOneEntryPerWindow ==
    (AllProcessed /\ ~split_day_night) => Len(log_tags) = Len(summary_stats)

=============================================================================
